---- MODULE Spec2Model ----
(***************************************************************************)
(* Event-to-job pipeline of the code reviewer backend: the webhook routes, *)
(* the review and report routes that enqueue jobs, the three Bull queues   *)
(* configured in setupQueues, and the life cycle of the jobs on them.      *)
(***************************************************************************)
EXTENDS Integers, Sequences, FiniteSets, TLC

VARIABLES
    env,        \* process.env: the two webhook secrets ("" = not configured)
    queues,     \* queue kind -> sequence of jobs; a job's id is its index
    pending,    \* handlers suspended at `await queue.add(...)` whose add resolved
    last,       \* the last HTTP response sent, with the request it answers
    ioInstance, \* whether setupWebSocket has stored the socket server
    sockets,    \* connection -> its socket: user, rooms joined, events received
    lastEmit,   \* the last call of an emit helper and how it ended
    lastMessage, \* the last client message a socket's handlers processed
    analyzers   \* the lint and scan services: temp files, calls, the last report

vars == <<env, queues, pending, last, ioInstance, sockets, lastEmit, lastMessage, analyzers>>

fanout == <<ioInstance, sockets, lastEmit, lastMessage>>

-----------------------------------------------------------------------------
(* Bounds of the model. *)

MaxJobs == 1          \* jobs enqueued on a queue over a run
MaxInFlight == 1      \* handlers suspended between enqueue and response
MaxEmits == 2         \* calls of the emit helpers over a run
TickMs == 1000        \* granularity of the clock, in milliseconds
MaxStale == 1         \* workers running a job on an expired lease at a time

-----------------------------------------------------------------------------
(* Request inputs. *)

Undefined == [kind |-> "undefined"]

\* param('repositoryId').isUUID(): the identifiers the validator accepts.
UUIDs == {"6f1c2d3e-0000-4000-8000-000000000001"}

\* As IsUUID, with the validation result never consulted.
IsUUIDUnchecked(id) == TRUE

IsUUID(id) == id \in UUIDs

Events == {"push", "pull_request"}

\* Raw request bodies, as sequences of bytes. The second differs from the
\* first in insignificant whitespace only, the third in one value byte.
BodySigned == <<"{", "a", ":", "1", "}">>

BodySpaced == <<"{", " ", "a", ":", "1", "}">>

BodyFlipped == <<"{", "a", ":", "2", "}">>

RawBodies == {BodySigned, BodySpaced, BodyFlipped}

\* express.json(): the parsed value of a one-member object, whitespace dropped.
JSONParse(raw) ==
    LET toks == SelectSeq(raw, LAMBDA t : t # " ")
    IN  [key |-> toks[2], value |-> IF toks[4] = "1" THEN 1 ELSE 2]

\* JSON.stringify(value): the compact serialisation.
JSONStringify(value) ==
    <<"{", value.key, ":", IF value.value = 1 THEN "1" ELSE "2", "}">>

-----------------------------------------------------------------------------
(* HMAC-SHA256 and the signature header formats. *)

HexDigestLen == 64

PrefixLen == 7

\* crypto.createHmac('sha256', secret).update(payload).digest('hex'): a
\* digest is determined by, and determines, the key and the message.
HmacHex(secret, payload) ==
    [kind |-> "string", prefix |-> "", hex |-> <<secret, payload>>, len |-> HexDigestLen]

\* 'sha256=' + hex
WithPrefix(s) ==
    [kind |-> "string", prefix |-> "sha256=", hex |-> s.hex, len |-> PrefixLen + s.len]

\* A header value that is no digest at all, of the given length.
Junk(n) == [kind |-> "string", prefix |-> "", hex |-> <<"junk">>, len |-> n]

\* crypto.timingSafeEqual(Buffer.from(a), Buffer.from(b)): Buffer.from throws
\* a TypeError on undefined, timingSafeEqual a RangeError on unequal lengths.
TimingSafeEqual(a, b) ==
    IF a = Undefined \/ b = Undefined THEN "TypeError"
    ELSE IF a.len # b.len THEN "RangeError"
    ELSE IF a = b THEN "true" ELSE "false"

\* As GitHubVerifyWebhookSignature, comparing the lengths but not the bytes.
GitHubVerifyLengthOnly(payload, signature, secret) ==
    LET expectedSignature == WithPrefix(HmacHex(secret, payload))
    IN  IF signature = Undefined THEN "TypeError"
        ELSE IF signature.len # expectedSignature.len THEN "RangeError"
        ELSE "true"

GitHubVerifyWebhookSignature(payload, signature, secret) ==
    LET expectedSignature == WithPrefix(HmacHex(secret, payload))
    IN  TimingSafeEqual(signature, expectedSignature)

GitLabVerifyWebhookSignature(payload, signature, secret) ==
    LET expectedSignature == HmacHex(secret, payload)
    IN  TimingSafeEqual(signature, expectedSignature)

Secrets == {"", "s3cret"}

-----------------------------------------------------------------------------
(* The queues of setupQueues and the jobs on them. *)

QueueKinds == {"analysis", "webhook", "report"}

NoOpts == [attempts |-> 0, backoff |-> [type |-> "none", delay |-> 0]]

\* defaultJobOptions of the three queues.
DefaultJobOptions(q) ==
    CASE q = "analysis" -> [attempts |-> 3, backoff |-> [type |-> "exponential", delay |-> 2000]]
      [] q = "webhook"  -> [attempts |-> 5, backoff |-> [type |-> "exponential", delay |-> 1000]]
      [] q = "report"   -> [attempts |-> 2, backoff |-> [type |-> "fixed", delay |-> 5000]]

\* As ReviewJobOpts, with the report routes' backoff type.
ReviewJobOptsFixed == [attempts |-> 3, backoff |-> [type |-> "fixed", delay |-> 2000]]

\* The options each route passes to queue.add.
ReviewJobOpts == [attempts |-> 3, backoff |-> [type |-> "exponential", delay |-> 2000]]

\* As ReportJobOpts, with the analysis routes' attempt count.
ReportJobOptsThreeAttempts == [attempts |-> 3, backoff |-> [type |-> "fixed", delay |-> 5000]]

ReportJobOpts == [attempts |-> 2, backoff |-> [type |-> "fixed", delay |-> 5000]]

GitHubJobOpts == [attempts |-> 3, backoff |-> [type |-> "exponential", delay |-> 2000]]

GitLabJobOpts == [attempts |-> 3, backoff |-> [type |-> "exponential", delay |-> 2000]]

NoFailure == [message |-> "null", attempt |-> 0]

\* As NewJob, with the backoff delay also passed as the job's `delay` option,
\* which holds the job back before its first attempt.
NewJobDelayed(q, name, data, opts) ==
    LET merged == IF opts = NoOpts THEN DefaultJobOptions(q) ELSE opts
    IN  [name |-> name, data |-> data, opts |-> merged, attemptsMade |-> 0,
         state |-> "queued", returnvalue |-> "null", failedReason |-> NoFailure,
         eligibleIn |-> merged.backoff.delay, waited |-> 0, delays |-> <<>>,
         lease |-> "none", stale |-> {}]

\* As NewJob, with the options of the caller dropped for the queue's defaults.
NewJobDefaultsOnly(q, name, data, opts) ==
    [name |-> name, data |-> data, opts |-> DefaultJobOptions(q), attemptsMade |-> 0,
     state |-> "queued", returnvalue |-> "null", failedReason |-> NoFailure,
     eligibleIn |-> 0, waited |-> 0, delays |-> <<>>, lease |-> "none", stale |-> {}]

\* queue.add(name, data, opts): the job as created, options given by the
\* caller taking precedence over the queue's defaults. No route passes a
\* `delay` option: the job is eligible at once.
NewJob(q, name, data, opts) ==
    [name |-> name,
     data |-> data,
     opts |-> IF opts = NoOpts THEN DefaultJobOptions(q) ELSE opts,
     attemptsMade |-> 0,
     state |-> "queued",
     returnvalue |-> "null",
     failedReason |-> NoFailure,
     eligibleIn |-> 0,      \* milliseconds until the job may be picked up
     waited |-> 0,          \* milliseconds waited since the last retry was scheduled
     delays |-> <<>>,       \* the retry delays applied so far
     lease |-> "none",      \* the worker that holds the job's lease
     stale |-> {}]          \* workers still running the job on a lease that expired

AttemptCount(job) == job.attemptsMade

MaxAttempts(job) == job.opts.attempts

IsTest(job) == "isTest" \in DOMAIN job.data /\ job.data.isTest = TRUE

TotalJobs == Len(queues["analysis"]) + Len(queues["webhook"]) + Len(queues["report"])

NoJob == [queue |-> "none", id |-> 0]

JobRefs == {[queue |-> q, id |-> i] : q \in QueueKinds, i \in 1..MaxJobs}

JobAt(ref) == queues[ref.queue][ref.id]

-----------------------------------------------------------------------------
(* Errors and the error-handling middleware. *)

CustomError(message, statusCode) == [message |-> message, statusCode |-> statusCode]

\* An error thrown by the runtime or a library: it carries no statusCode.
NativeError(name) == [message |-> name]

\* errorHandler: `const { statusCode = 500 } = error; res.status(statusCode)`.
StatusCodeOf(error) ==
    IF "statusCode" \in DOMAIN error THEN error.statusCode ELSE 500

NoRequest == [endpoint |-> "none"]

\* The body of a response other than that of the job status route, which no
\* property below looks into.
NoBody == [jobId |-> 0, status |-> "none", progress |-> 0, data |-> Undefined,
           result |-> "null", error |-> NoFailure]

NoneAdded == [q \in QueueKinds |-> 0]

\* asyncHandler + errorHandler: the handler threw `error` before it enqueued
\* anything; the response is sent and nothing else changes.
ErrorHandler(req, error) ==
    /\ last' = [req |-> req, status |-> StatusCodeOf(error), error |-> error.message,
                added |-> NoneAdded, job |-> NoJob, jobState |-> "none", body |-> NoBody]
    /\ UNCHANGED <<env, queues, pending, fanout, analyzers>>

\* `await queue.add(name, data, opts)` followed by the success response.
\* Either the store takes the job, and the handler resumes later to send
\* `status`, or the add rejects and the rejection reaches errorHandler.
QueueAdd(req, q, name, data, opts, status) ==
    \/ /\ Len(queues[q]) < MaxJobs
       /\ Len(pending) < MaxInFlight
       /\ queues' = [queues EXCEPT ![q] = Append(@, NewJob(q, name, data, opts))]
       /\ pending' = Append(pending,
               [req |-> req, status |-> status,
                added |-> [k \in QueueKinds |-> Len(queues'[k]) - Len(queues[k])],
                job |-> [queue |-> q, id |-> Len(queues'[q])]])
       /\ UNCHANGED <<env, last, fanout, analyzers>>
    \/ ErrorHandler(req, NativeError("QueueUnavailable"))

\* As Respond, with the response held back until the job has completed.
RespondAfterCompletion(i) ==
    /\ i \in 1..Len(pending)
    /\ JobAt(pending[i].job).state = "completed"
    /\ last' = [req |-> pending[i].req, status |-> pending[i].status, error |-> "none",
                added |-> pending[i].added, job |-> pending[i].job,
                jobState |-> JobAt(pending[i].job).state,
                body |-> NoBody]
    /\ pending' = SubSeq(pending, 1, i - 1) \o SubSeq(pending, i + 1, Len(pending))
    /\ UNCHANGED <<env, queues, fanout, analyzers>>

\* The continuation after the await: `res.status(...).json(...)`.
Respond(i) ==
    /\ i \in 1..Len(pending)
    /\ last' = [req |-> pending[i].req, status |-> pending[i].status, error |-> "none",
                added |-> pending[i].added, job |-> pending[i].job,
                jobState |-> JobAt(pending[i].job).state,
                body |-> NoBody]
    /\ pending' = SubSeq(pending, 1, i - 1) \o SubSeq(pending, i + 1, Len(pending))
    /\ UNCHANGED <<env, queues, fanout, analyzers>>

-----------------------------------------------------------------------------
(* The webhook routes. *)

\* process.env.GITHUB_WEBHOOK_SECRET / process.env.GITLAB_WEBHOOK_SECRET
GitHubWebhookSecret == env.GITHUB_WEBHOOK_SECRET

\* As GitLabWebhookSecret, reading the other provider's variable.
GitLabSecretFromGitHubVariable == env.GITHUB_WEBHOOK_SECRET

GitLabWebhookSecret == env.GITLAB_WEBHOOK_SECRET

\* The data of the job each route enqueues.
GitHubJobData(repositoryId, event, payload) ==
    [repositoryId |-> repositoryId, event |-> event, payload |-> payload,
     provider |-> "github"]

GitLabJobData(repositoryId, event, payload) ==
    [repositoryId |-> repositoryId, event |-> event, payload |-> payload,
     provider |-> "gitlab"]

\* As TestJobData, without the isTest mark.
TestJobDataUnmarked(repositoryId, eventType, provider) ==
    [repositoryId |-> repositoryId, event |-> eventType,
     payload |-> [action |-> "test", repository |-> [id |-> repositoryId],
                  sender |-> [login |-> "test-user"]],
     provider |-> provider]

TestJobData(repositoryId, eventType, provider) ==
    [repositoryId |-> repositoryId, event |-> eventType,
     payload |-> [action |-> "test", repository |-> [id |-> repositoryId],
                  sender |-> [login |-> "test-user"]],
     provider |-> provider, isTest |-> TRUE]

GitHubWebhook(repositoryId, signature, event, raw) ==
    LET req == [endpoint |-> "github", repositoryId |-> repositoryId,
                signature |-> signature, event |-> event, raw |-> raw]
        payload == JSONParse(raw)
        webhookSecret == GitHubWebhookSecret
        verdict == GitHubVerifyWebhookSignature(JSONStringify(payload), signature, webhookSecret)
    IN  IF ~IsUUID(repositoryId)
        THEN ErrorHandler(req, CustomError("Invalid repository ID", 400))
        ELSE IF webhookSecret # "" /\ verdict \in {"TypeError", "RangeError"}
        THEN ErrorHandler(req, NativeError(verdict))
        ELSE IF webhookSecret # "" /\ verdict = "false"
        THEN ErrorHandler(req, CustomError("Invalid webhook signature", 401))
        ELSE QueueAdd(req, "webhook", "process-github-webhook",
                 GitHubJobData(repositoryId, event, payload),
                 GitHubJobOpts, 200)

GitLabWebhook(repositoryId, signature, event, raw) ==
    LET req == [endpoint |-> "gitlab", repositoryId |-> repositoryId,
                signature |-> signature, event |-> event, raw |-> raw]
        payload == JSONParse(raw)
        webhookSecret == GitLabWebhookSecret
        verdict == GitLabVerifyWebhookSignature(JSONStringify(payload), signature, webhookSecret)
    IN  IF ~IsUUID(repositoryId)
        THEN ErrorHandler(req, CustomError("Invalid repository ID", 400))
        ELSE IF webhookSecret # "" /\ verdict \in {"TypeError", "RangeError"}
        THEN ErrorHandler(req, NativeError(verdict))
        ELSE IF webhookSecret # "" /\ verdict = "false"
        THEN ErrorHandler(req, CustomError("Invalid webhook signature", 401))
        ELSE QueueAdd(req, "webhook", "process-gitlab-webhook",
                 GitLabJobData(repositoryId, event, payload),
                 GitLabJobOpts, 200)

\* authenticateToken: the error it throws when the Authorization header is
\* "absent" or carries a token jwt.verify rejects ("invalid"), and NoError
\* when the token is "valid" and next() is called.
NoError == [message |-> "none", statusCode |-> 0]

AuthenticateToken(authorization) ==
    IF authorization = "absent" THEN CustomError("Access token required", 401)
    ELSE IF authorization = "invalid" THEN CustomError("Invalid or expired token", 403)
    ELSE NoError

TestProviders == {"github", "gitlab", "bitbucket"}

\* `test-${provider}-webhook`
TestJobName(provider) ==
    IF provider = "github" THEN "test-github-webhook" ELSE "test-gitlab-webhook"

TestWebhook(authorization, repositoryId, provider, eventType) ==
    LET req == [endpoint |-> "test", authorization |-> authorization,
                repositoryId |-> repositoryId, provider |-> provider,
                eventType |-> eventType]
        auth == AuthenticateToken(authorization)
    IN  IF auth # NoError
        THEN ErrorHandler(req, auth)
        ELSE IF ~IsUUID(repositoryId) \/ provider \notin {"github", "gitlab"} \/ eventType = ""
        THEN ErrorHandler(req, CustomError("Invalid request data", 400))
        ELSE QueueAdd(req, "webhook", TestJobName(provider),
                 TestJobData(repositoryId, eventType, provider),
                 NoOpts, 200)

-----------------------------------------------------------------------------
(* The review and report routes that enqueue jobs, and the retry routes. *)

PullRequestIds == UUIDs \cup {"not-a-uuid"}

AnalysisTypes == {"sonarqube", "eslint", "security", "custom"}

CreateReview(authorization, pullRequestId, analysisType) ==
    LET req == [endpoint |-> "createReview", authorization |-> authorization,
                pullRequestId |-> pullRequestId, analysisType |-> analysisType]
        auth == AuthenticateToken(authorization)
    IN  IF auth # NoError
        THEN ErrorHandler(req, auth)
        ELSE IF ~IsUUID(pullRequestId) \/ analysisType \notin AnalysisTypes
        THEN ErrorHandler(req, CustomError("Invalid request data", 400))
        ELSE QueueAdd(req, "analysis", "analyze-pull-request",
                 [pullRequestId |-> pullRequestId, analysisType |-> analysisType,
                  configuration |-> Undefined, userId |-> "user-1"],
                 ReviewJobOpts, 201)

ReviewPdfReport(authorization, reviewId) ==
    LET req == [endpoint |-> "reviewPdf", authorization |-> authorization,
                reviewId |-> reviewId]
        auth == AuthenticateToken(authorization)
    IN  IF auth # NoError
        THEN ErrorHandler(req, auth)
        ELSE IF ~IsUUID(reviewId)
        THEN ErrorHandler(req, CustomError("Invalid request data", 400))
        ELSE QueueAdd(req, "report", "generate-pdf-report",
                 [reviewId |-> reviewId, type |-> "review", format |-> "pdf",
                  userId |-> "user-1"],
                 ReportJobOpts, 202)

RepositoryPdfReport(authorization, repositoryId) ==
    LET req == [endpoint |-> "repositoryPdf", authorization |-> authorization,
                repositoryId |-> repositoryId]
        auth == AuthenticateToken(authorization)
    IN  IF auth # NoError
        THEN ErrorHandler(req, auth)
        ELSE IF ~IsUUID(repositoryId)
        THEN ErrorHandler(req, CustomError("Invalid request data", 400))
        ELSE QueueAdd(req, "report", "generate-pdf-report",
                 [repositoryId |-> repositoryId, type |-> "repository", format |-> "pdf",
                  timeRange |-> "30d", userId |-> "user-1"],
                 ReportJobOpts, 202)

IssuesCsvReport(authorization) ==
    LET req == [endpoint |-> "issuesCsv", authorization |-> authorization]
        auth == AuthenticateToken(authorization)
    IN  IF auth # NoError
        THEN ErrorHandler(req, auth)
        ELSE QueueAdd(req, "report", "generate-csv-report",
                 [type |-> "issues", format |-> "csv", userId |-> "user-1"],
                 ReportJobOpts, 202)

\* res.json(...) of a handler that enqueues nothing: status 200.
Json(req) ==
    /\ last' = [req |-> req, status |-> 200, error |-> "none", added |-> NoneAdded,
                job |-> NoJob, jobState |-> "none", body |-> NoBody]
    /\ UNCHANGED <<env, queues, pending, fanout, analyzers>>

\* As JobStatus, with the job's name sent as its result.
JobStatusResultFromName(authorization, jobId) ==
    LET req == [endpoint |-> "jobStatus", authorization |-> authorization, jobId |-> jobId]
        job == queues["report"][jobId]
    IN  /\ authorization = "valid"
        /\ jobId \in 1..Len(queues["report"])
        /\ last' = [req |-> req, status |-> 200, error |-> "none", added |-> NoneAdded,
                    job |-> NoJob, jobState |-> "none",
                    body |-> [jobId |-> jobId, status |-> job.state, progress |-> 0,
                              data |-> job.data, result |-> job.name,
                              error |-> job.failedReason]]
        /\ UNCHANGED <<env, queues, pending, fanout, analyzers>>

\* GET /jobs/:jobId: the job is looked up on the report queue; its state,
\* progress, data, return value and failure reason are sent as they are.
JobStatus(authorization, jobId) ==
    LET req == [endpoint |-> "jobStatus", authorization |-> authorization, jobId |-> jobId]
        auth == AuthenticateToken(authorization)
        job == queues["report"][jobId]
    IN  IF auth # NoError
        THEN ErrorHandler(req, auth)
        ELSE IF jobId \notin 1..Len(queues["report"])
        THEN ErrorHandler(req, CustomError("Job not found", 404))
        ELSE /\ last' = [req |-> req, status |-> 200, error |-> "none", added |-> NoneAdded,
                         job |-> NoJob, jobState |-> "none",
                         body |-> [jobId |-> jobId, status |-> job.state, progress |-> 0,
                                   data |-> job.data, result |-> job.returnvalue,
                                   error |-> job.failedReason]]
             /\ UNCHANGED <<env, queues, pending, fanout, analyzers>>

\* POST /:reviewId/cancel: the cancel logic is a TODO; the route answers
\* 'Review cancelled' and touches no queue.
CancelReview(authorization, reviewId) ==
    LET req == [endpoint |-> "cancelReview", authorization |-> authorization,
                reviewId |-> reviewId]
        auth == AuthenticateToken(authorization)
    IN  IF auth # NoError
        THEN ErrorHandler(req, auth)
        ELSE IF ~IsUUID(reviewId)
        THEN ErrorHandler(req, CustomError("Invalid review ID", 400))
        ELSE Json(req)

\* As RetryReview, with the TODO filled in by putting every failed or dead
\* analysis job back on its queue, its attempts made kept.
RetryReviewRequeues(authorization, reviewId) ==
    LET req == [endpoint |-> "retryReview", authorization |-> authorization,
                reviewId |-> reviewId]
    IN  /\ authorization = "valid"
        /\ IsUUID(reviewId)
        /\ queues' = [queues EXCEPT !["analysis"] =
               [i \in DOMAIN @ |->
                   IF @[i].state \in {"failed", "dead"}
                   THEN [@[i] EXCEPT !.state = "queued"] ELSE @[i]]]
        /\ last' = [req |-> req, status |-> 200, error |-> "none", added |-> NoneAdded,
                    job |-> NoJob, jobState |-> "none", body |-> NoBody]
        /\ UNCHANGED <<env, pending, fanout, analyzers>>

\* POST /:reviewId/retry: the retry logic is a TODO; the route answers and
\* touches no queue.
RetryReview(authorization, reviewId) ==
    LET req == [endpoint |-> "retryReview", authorization |-> authorization,
                reviewId |-> reviewId]
        auth == AuthenticateToken(authorization)
    IN  IF auth # NoError
        THEN ErrorHandler(req, auth)
        ELSE IF ~IsUUID(reviewId)
        THEN ErrorHandler(req, CustomError("Invalid review ID", 400))
        ELSE Json(req)

\* As RetryWebhookEvent, with the TODO filled in by putting every webhook job
\* back on its queue whatever its state.
RetryWebhookEventReopensAny(authorization, eventId) ==
    LET req == [endpoint |-> "retryWebhookEvent", authorization |-> authorization,
                eventId |-> eventId]
    IN  /\ authorization = "valid"
        /\ IsUUID(eventId)
        /\ queues' = [queues EXCEPT !["webhook"] =
               [i \in DOMAIN @ |-> [@[i] EXCEPT !.state = "queued"]]]
        /\ last' = [req |-> req, status |-> 200, error |-> "none", added |-> NoneAdded,
                    job |-> NoJob, jobState |-> "none", body |-> NoBody]
        /\ UNCHANGED <<env, pending, fanout, analyzers>>

\* POST /events/:eventId/retry: likewise a TODO.
RetryWebhookEvent(authorization, eventId) ==
    LET req == [endpoint |-> "retryWebhookEvent", authorization |-> authorization,
                eventId |-> eventId]
        auth == AuthenticateToken(authorization)
    IN  IF auth # NoError
        THEN ErrorHandler(req, auth)
        ELSE IF ~IsUUID(eventId)
        THEN ErrorHandler(req, CustomError("Invalid event ID", 400))
        ELSE Json(req)

-----------------------------------------------------------------------------
(* The life cycle of a job (section 4.2 of the specification): the workers *)
(* that take jobs off the queues are not part of the routes above.         *)

JobStates == {"queued", "active", "completed", "failed", "dead"}

\* The 'completed' and 'failed' handlers setupQueues registers on each
\* queue: they write a log line and nothing else.
OnCompleted(q, job) == UNCHANGED <<fanout, analyzers>>

OnFailed(q, job) == UNCHANGED <<fanout, analyzers>>

SetJob(q, i, job) ==
    /\ queues' = [queues EXCEPT ![q][i] = job]
    /\ UNCHANGED <<env, pending, last>>

\* Backoff policy: exponential -> baseDelay * 2^(attemptCount-1), fixed ->
\* baseDelay.
BackoffDelay(backoff, attemptCount) ==
    IF backoff.type = "exponential"
    THEN backoff.delay * 2^(attemptCount - 1)
    ELSE backoff.delay

\* The message of a job's n-th failure.
FailureMessage(n) == [message |-> "attempt failed", attempt |-> n]

\* The worker units of a queue's pool.
Workers == {"w1", "w2"}

\* The first worker of the pool that is not running the job already.
FreeWorker(job) == IF "w1" \notin job.stale THEN "w1" ELSE "w2"

\* queued -> active: a free worker picks up a job that is eligible and
\* holds its lease from then on.
Pickup(q, i) ==
    /\ i \in 1..Len(queues[q])
    /\ queues[q][i].state = "queued"
    /\ queues[q][i].eligibleIn = 0
    /\ FreeWorker(queues[q][i]) \notin queues[q][i].stale
    /\ SetJob(q, i, [queues[q][i] EXCEPT !.state = "active",
                                          !.lease = FreeWorker(queues[q][i])])
    /\ UNCHANGED <<fanout, analyzers>>

\* active -> completed
Complete(q, i) ==
    /\ i \in 1..Len(queues[q])
    /\ queues[q][i].state = "active"
    /\ SetJob(q, i, [queues[q][i] EXCEPT !.state = "completed",
                                          !.returnvalue = "result",
                                          !.lease = "none"])
    /\ OnCompleted(q, queues[q][i])

\* active -> failed: the attempt is counted and its error recorded.
Fail(q, i) ==
    /\ i \in 1..Len(queues[q])
    /\ queues[q][i].state = "active"
    /\ SetJob(q, i, [queues[q][i] EXCEPT !.state = "failed",
                                          !.attemptsMade = @ + 1,
                                          !.failedReason = FailureMessage(queues[q][i].attemptsMade + 1),
                                          !.lease = "none"])
    /\ OnFailed(q, queues[q][i])

\* failed -> queued, automatically, while attempts remain: the job is
\* eligible again once the delay of its backoff policy has passed.
AutoRetry(q, i) ==
    LET job == queues[q][i]
        delay == BackoffDelay(job.opts.backoff, job.attemptsMade)
    IN  /\ i \in 1..Len(queues[q])
        /\ job.state = "failed"
        /\ AttemptCount(job) < MaxAttempts(job)
        /\ SetJob(q, i, [job EXCEPT !.state = "queued", !.eligibleIn = delay,
                                    !.waited = 0, !.delays = Append(@, delay)])
        /\ UNCHANGED <<fanout, analyzers>>

\* failed -> dead, once the attempts are exhausted.
Exhaust(q, i) ==
    /\ i \in 1..Len(queues[q])
    /\ queues[q][i].state = "failed"
    /\ AttemptCount(queues[q][i]) >= MaxAttempts(queues[q][i])
    /\ SetJob(q, i, [queues[q][i] EXCEPT !.state = "dead"])
    /\ UNCHANGED <<fanout, analyzers>>

\* active -> queued: the worker crashed and its lease expired.
LeaseExpire(q, i) ==
    /\ i \in 1..Len(queues[q])
    /\ queues[q][i].state = "active"
    /\ SetJob(q, i, [queues[q][i] EXCEPT !.state = "queued", !.lease = "none"])
    /\ UNCHANGED <<fanout, analyzers>>

\* active -> queued: the lease expired on a worker that is still running
\* the job (no heartbeat, no completion within the lease timeout).
LeaseLapse(q, i) ==
    /\ i \in 1..Len(queues[q])
    /\ queues[q][i].state = "active"
    /\ Cardinality(queues[q][i].stale) < MaxStale
    /\ SetJob(q, i, [queues[q][i] EXCEPT !.state = "queued", !.lease = "none",
                                          !.stale = @ \cup {queues[q][i].lease}])
    /\ UNCHANGED <<fanout, analyzers>>

\* As StaleReport, with the result of the stale worker committed.
StaleReportCommits(q, i, w) ==
    /\ i \in 1..Len(queues[q])
    /\ w \in queues[q][i].stale
    /\ SetJob(q, i, [queues[q][i] EXCEPT !.state = "completed", !.returnvalue = "result",
                                          !.lease = "none", !.stale = @ \ {w}])
    /\ UNCHANGED <<fanout, analyzers>>

\* A worker whose lease expired reports its completion or its failure: it
\* finds its lease no longer valid and commits nothing.
StaleReport(q, i, w) ==
    /\ i \in 1..Len(queues[q])
    /\ w \in queues[q][i].stale
    /\ SetJob(q, i, [queues[q][i] EXCEPT !.stale = @ \ {w}])
    /\ UNCHANGED <<fanout, analyzers>>

\* Time passes for every job that waits out a delay.
Waiting(job) == job.state = "queued" /\ job.eligibleIn > 0

Tick ==
    /\ \E q \in QueueKinds, i \in 1..MaxJobs : i <= Len(queues[q]) /\ Waiting(queues[q][i])
    /\ queues' = [q \in QueueKinds |->
           [i \in DOMAIN queues[q] |->
               IF Waiting(queues[q][i])
               THEN [queues[q][i] EXCEPT
                        !.eligibleIn = IF @ > TickMs THEN @ - TickMs ELSE 0,
                        !.waited = @ + TickMs]
               ELSE queues[q][i]]]
    /\ UNCHANGED <<env, pending, last, fanout, analyzers>>

-----------------------------------------------------------------------------
(* The socket server: connections, rooms and the emit helpers. *)

Conns == {"c1", "c2", "c3"}

\* `user:${id}`, `repository:${id}`, `pr:${id}` and 'admin'.
Room(kind, id) == <<kind, id>>

AdminRoom == <<"admin">>

Broadcast == <<"*">>

\* A connection that is not open: no socket, hence no room and no event;
\* `error` is what the middleware refused its last handshake with.
Closed == [connected |-> FALSE, userId |-> "none", userRole |-> "none",
           rooms |-> {}, received |-> <<>>, error |-> "none"]

NoEmit == [helper |-> "none", room |-> <<"none">>, event |-> "none", data |-> 0,
           thrown |-> "none", n |-> 0]

\* setupWebSocket(io): the server is stored; its middleware and handlers are
\* Connect and the actions after it.
SetupWebSocket ==
    /\ ioInstance' = TRUE
    /\ UNCHANGED <<env, queues, pending, last, sockets, lastEmit, lastMessage, analyzers>>

\* What the handshake presents: no token, one jwt.verify throws on, or one
\* it decodes.
Tokens == {"absent", "invalid", "expired", "valid"}

\* The authentication middleware: next() or next(new Error(...)).
AuthenticationError(token) ==
    IF token = "absent" THEN "Authentication error: No token provided"
    ELSE IF token # "valid" THEN "Authentication error: Invalid token"
    ELSE "none"

\* The 'connection' handler: the socket joins its user's room and, for an
\* admin, the admin room.
Connection(userId, role) ==
    [connected |-> TRUE, userId |-> userId, userRole |-> role,
     rooms |-> {Room("user", userId)} \cup (IF role = "admin" THEN {AdminRoom} ELSE {}),
     received |-> <<>>, error |-> "none"]

\* As Connect, with every socket joined to the admin room.
ConnectAllAdmins(c, token, userId, role) ==
    /\ ioInstance
    /\ ~sockets[c].connected
    /\ IF AuthenticationError(token) # "none"
       THEN sockets' = [sockets EXCEPT ![c] =
                [Closed EXCEPT !.error = AuthenticationError(token)]]
       ELSE sockets' = [sockets EXCEPT ![c] =
                [Connection(userId, role) EXCEPT !.rooms = @ \cup {AdminRoom}]]
    /\ UNCHANGED <<env, queues, pending, last, ioInstance, lastEmit, lastMessage, analyzers>>

\* As Connect, with the middleware calling next() whatever the token.
ConnectUnverified(c, token, userId, role) ==
    /\ ioInstance
    /\ ~sockets[c].connected
    /\ sockets' = [sockets EXCEPT ![c] = Connection(userId, role)]
    /\ UNCHANGED <<env, queues, pending, last, ioInstance, lastEmit, lastMessage, analyzers>>

\* A handshake: the middleware refuses it, or the 'connection' handler runs.
Connect(c, token, userId, role) ==
    /\ ioInstance
    /\ ~sockets[c].connected
    /\ IF AuthenticationError(token) # "none"
       THEN sockets' = [sockets EXCEPT ![c] =
                [Closed EXCEPT !.error = AuthenticationError(token)]]
       ELSE sockets' = [sockets EXCEPT ![c] = Connection(userId, role)]
    /\ UNCHANGED <<env, queues, pending, last, ioInstance, lastEmit, lastMessage, analyzers>>

\* As Join, with a room already joined left instead.
JoinToggles(c, room) ==
    sockets' = [sockets EXCEPT ![c].rooms =
                   IF room \in @ THEN @ \ {room} ELSE @ \cup {room}]

\* socket.join(room) / socket.leave(room): the room is added to, or taken
\* from, the set of rooms the socket is in.
Join(c, room) ==
    sockets' = [sockets EXCEPT ![c].rooms = @ \cup {room}]

Leave(c, room) ==
    sockets' = [sockets EXCEPT ![c].rooms = @ \ {room}]

NoMessage == [conn |-> "none", event |-> "none", arg |-> "none", changed |-> FALSE]

\* A client message reaches its handler only on a socket the 'connection'
\* handler has run for; what the handler did is kept as the last message.
OnMessage(c, event, arg) ==
    /\ sockets[c].connected
    /\ lastMessage' = [conn |-> c, event |-> event, arg |-> arg,
                       changed |-> sockets'[c].rooms # sockets[c].rooms]
    /\ UNCHANGED <<env, queues, pending, last, ioInstance, lastEmit, analyzers>>

\* As SubscribeRepository, joining the room the client names.
SubscribeRepositoryUnprefixed(c, repositoryId) ==
    /\ Join(c, <<repositoryId>>)
    /\ OnMessage(c, "subscribe:repository", repositoryId)

SubscribeRepository(c, repositoryId) ==
    /\ Join(c, Room("repository", repositoryId))
    /\ OnMessage(c, "subscribe:repository", repositoryId)

UnsubscribeRepository(c, repositoryId) ==
    /\ Leave(c, Room("repository", repositoryId))
    /\ OnMessage(c, "unsubscribe:repository", repositoryId)

SubscribePr(c, prId) ==
    /\ Join(c, Room("pr", prId))
    /\ OnMessage(c, "subscribe:pr", prId)

UnsubscribePr(c, prId) ==
    /\ Leave(c, Room("pr", prId))
    /\ OnMessage(c, "unsubscribe:pr", prId)

\* As Disconnect, with the rooms of the socket kept.
DisconnectKeepsRooms(c) ==
    /\ sockets[c].connected
    /\ sockets' = [sockets EXCEPT ![c] = [Closed EXCEPT !.rooms = sockets[c].rooms]]
    /\ UNCHANGED <<env, queues, pending, last, ioInstance, lastEmit, lastMessage, analyzers>>

\* 'disconnect': the socket is gone, and with it its rooms.
Disconnect(c) ==
    /\ sockets[c].connected
    /\ sockets' = [sockets EXCEPT ![c] = Closed]
    /\ UNCHANGED <<env, queues, pending, last, ioInstance, lastEmit, lastMessage, analyzers>>

\* The outcome of one call of an emit helper: the sockets `to` receive the
\* event, once each.
Emitted(helper, room, to, event, data, thrown) ==
    /\ lastEmit.n < MaxEmits
    /\ sockets' = [c \in Conns |->
           IF c \in to
           THEN [sockets[c] EXCEPT !.received = Append(@, [event |-> event, data |-> data])]
           ELSE sockets[c]]
    /\ lastEmit' = [helper |-> helper, room |-> room, event |-> event, data |-> data,
                    thrown |-> thrown, n |-> lastEmit.n + 1]
    /\ UNCHANGED <<env, queues, pending, last, ioInstance, lastMessage, analyzers>>

\* ioInstance.to(room): the sockets in the room now.
InRoom(room) == {c \in Conns : sockets[c].connected /\ room \in sockets[c].rooms}

\* ioInstance.emit: every socket connected.
Connected == {c \in Conns : sockets[c].connected}

\* As EmitToUser, without the `if (!ioInstance) return` guard: the call on
\* null throws.
EmitToUserUnguarded(userId, event, data) ==
    IF ~ioInstance
    THEN Emitted("emitToUser", Room("user", userId), {}, event, data, "TypeError")
    ELSE Emitted("emitToUser", Room("user", userId), InRoom(Room("user", userId)),
                 event, data, "none")

EmitToUser(userId, event, data) ==
    IF ~ioInstance
    THEN Emitted("emitToUser", Room("user", userId), {}, event, data, "none")
    ELSE Emitted("emitToUser", Room("user", userId), InRoom(Room("user", userId)),
                 event, data, "none")

EmitToRepository(repositoryId, event, data) ==
    IF ~ioInstance
    THEN Emitted("emitToRepository", Room("repository", repositoryId), {}, event, data, "none")
    ELSE Emitted("emitToRepository", Room("repository", repositoryId),
                 InRoom(Room("repository", repositoryId)), event, data, "none")

\* As EmitToPR, emitting on the server instead of on the room.
EmitToPRBroadcast(prId, event, data) ==
    IF ~ioInstance
    THEN Emitted("emitToPR", Room("pr", prId), {}, event, data, "none")
    ELSE Emitted("emitToPR", Room("pr", prId), Connected, event, data, "none")

EmitToPR(prId, event, data) ==
    IF ~ioInstance
    THEN Emitted("emitToPR", Room("pr", prId), {}, event, data, "none")
    ELSE Emitted("emitToPR", Room("pr", prId), InRoom(Room("pr", prId)), event, data, "none")

EmitToAdmins(event, data) ==
    IF ~ioInstance
    THEN Emitted("emitToAdmins", AdminRoom, {}, event, data, "none")
    ELSE Emitted("emitToAdmins", AdminRoom, InRoom(AdminRoom), event, data, "none")

EmitToAll(event, data) ==
    IF ~ioInstance
    THEN Emitted("emitToAll", Broadcast, {}, event, data, "none")
    ELSE Emitted("emitToAll", Broadcast, Connected, event, data, "none")

-----------------------------------------------------------------------------
(* The analyzers: the ESLint service, which lints a text through a file  *)
(* in its temp directory, and the SonarQube service, which asks the scan   *)
(* server. A call is followed from its start to its return or its throw.   *)

\* A source text, as far as the lint engine tells texts apart: how deep its
\* autofixable violations are nested (a fix pass removes one layer) and how
\* many violations it has that no fix removes.
Clean == [nested |-> 0, unused |-> 0]

Dirty == [nested |-> 1, unused |-> 1]

\* No file at a path; no text read.
Absent == [nested |-> -1, unused |-> -1]

\* The engine stops fixing after this many passes over a text.
MaxAutofixPasses == 10

Nested == [nested |-> MaxAutofixPasses + 2, unused |-> 0]

Filenames == {"a.js", "b.js"}

CallIds == {"k1", "k2"}

\* linter.verify: one message for each violation left in the text, errors
\* (severity 2) for the fixable ones, warnings (severity 1) for the others.
Messages(text) ==
    [i \in 1..text.nested |->
        [ruleId |-> "no-extra-parens", severity |-> 2, fix |-> TRUE]]
      \o [i \in 1..text.unused |->
            [ruleId |-> "no-unused-vars", severity |-> 1, fix |-> FALSE]]

RECURSIVE VerifyAndFix(_, _)
\* linter.verifyAndFix: fix passes while a pass changed the text, at most
\* MaxAutofixPasses of them.
VerifyAndFix(text, pass) ==
    IF text.nested = 0 \/ pass = MaxAutofixPasses
    THEN text
    ELSE VerifyAndFix([text EXCEPT !.nested = @ - 1], pass + 1)

Count(msgs, severity, fixable) ==
    Cardinality({i \in DOMAIN msgs :
        msgs[i].severity = severity /\ (fixable => msgs[i].fix)})

\* eslint.lintFiles([path]) on a file holding `text`: with fix: true the
\* messages and counts are those of the text as fixed in memory, which is
\* returned as `output`; the file is not written.
LintFiles(path, text, fix) ==
    LET fixedText == IF fix THEN VerifyAndFix(text, 0) ELSE text
        msgs == Messages(fixedText)
    IN  <<[filePath |-> path, messages |-> msgs,
           errorCount |-> Count(msgs, 2, FALSE),
           warningCount |-> Count(msgs, 1, FALSE),
           fixableErrorCount |-> Count(msgs, 2, TRUE),
           fixableWarningCount |-> Count(msgs, 1, TRUE),
           output |-> fixedText]>>

NoValue == [fixed |-> FALSE, output |-> Absent, results |-> <<>>]

\* A call not made yet. `target` is the file name of a lint call and the
\* project key of a scan; `linted` is the text the engine read.
NoCall == [op |-> "none", pc |-> "idle", target |-> "none", source |-> Absent,
           config |-> "none", linted |-> Absent, value |-> NoValue, error |-> "none"]

RECURSIVE SumOf(_, _)
\* array.reduce((sum, x) => sum + f(x), 0) over the entries S of f.
SumOf(f, S) ==
    IF S = {} THEN 0
    ELSE LET x == CHOOSE y \in S : TRUE
         IN  f[x] + SumOf(f, S \ {x})

\* ESLintService.generateReport(results)
GenerateReport(results) ==
    LET total(field) == SumOf([i \in DOMAIN results |-> results[i][field]], DOMAIN results)
    IN  [summary |-> [totalFiles |-> Len(results),
                      totalErrors |-> total("errorCount"),
                      totalWarnings |-> total("warningCount"),
                      totalFixableErrors |-> total("fixableErrorCount"),
                      totalFixableWarnings |-> total("fixableWarningCount")],
         files |-> [i \in DOMAIN results |->
                       [filePath |-> results[i].filePath,
                        errorCount |-> results[i].errorCount,
                        warningCount |-> results[i].warningCount,
                        messages |-> results[i].messages]]]

NoReport == [made |-> FALSE, input |-> <<>>, output |-> GenerateReport(<<>>)]

NoAnalysis == [files |-> [f \in Filenames |-> Absent],
               calls |-> [k \in CallIds |-> NoCall],
               report |-> NoReport]

\* A step of the analyzers leaves the rest alone.
AnalyzerStep == UNCHANGED <<env, queues, pending, last, fanout>>

\* The start of analyzeCode and fixCode, up to the await: the text is
\* written to tempDir/filename and lintFiles is called.
StartCall(k, op, sourceCode, filename, customConfig) ==
    /\ analyzers.calls[k].op = "none"
    /\ analyzers' = [analyzers EXCEPT
           !.files[filename] = sourceCode,
           !.calls[k] = [NoCall EXCEPT !.op = op, !.pc = "written", !.target = filename,
                                       !.source = sourceCode, !.config = customConfig]]
    /\ AnalyzerStep

AnalyzeCode(k, sourceCode, filename, customConfig) ==
    StartCall(k, "analyzeCode", sourceCode, filename, customConfig)

FixCode(k, sourceCode, filename, customConfig) ==
    StartCall(k, "fixCode", sourceCode, filename, customConfig)

\* `catch (error) { logger.error(...); throw error; }`: the call ends with
\* the error thrown, whatever it had done before.
Rethrow(k, error) ==
    analyzers' = [analyzers EXCEPT !.calls[k].pc = "thrown", !.calls[k].error = error]

\* The engine at work inside lintFiles: it rejects a configuration it cannot
\* use, finds no file, or lints what the file at the path holds by then.
Lint(k) ==
    LET call == analyzers.calls[k]
        text == analyzers.files[call.target]
    IN  /\ call.op \in {"analyzeCode", "fixCode"}
        /\ call.pc = "written"
        /\ IF call.config = "malformed"
           THEN Rethrow(k, "ConfigError")
           ELSE IF text = Absent
           THEN Rethrow(k, "NoFilesFound")
           ELSE analyzers' = [analyzers EXCEPT
                    !.calls[k].pc = "linted",
                    !.calls[k].linted = text,
                    !.calls[k].value.results =
                        LintFiles(call.target, text, call.op = "fixCode")]
        /\ AnalyzerStep

\* What fixCode returns from the engine's result and the file read back.
FixResult(results, fixedContent) ==
    [fixed |-> results[1].fixableErrorCount > 0 \/ results[1].fixableWarningCount > 0,
     output |-> fixedContent,
     results |-> results]

\* After the await: fixCode reads the file back; both remove the file and
\* return. readFileSync and unlinkSync throw on a file that is gone.
Resume(k) ==
    LET call == analyzers.calls[k]
        content == analyzers.files[call.target]
    IN  /\ call.pc = "linted"
        /\ IF content = Absent
           THEN Rethrow(k, "ENOENT")
           ELSE analyzers' = [analyzers EXCEPT
                    !.files[call.target] = Absent,
                    !.calls[k].pc = "returned",
                    !.calls[k].value =
                        IF call.op = "fixCode"
                        THEN FixResult(call.value.results, content)
                        ELSE [NoValue EXCEPT !.results = call.value.results]]
        /\ AnalyzerStep

\* SonarQubeService.analyzeProject: getProjectIssues, then getProjectStatus;
\* each is a request the scan server answers or fails, and a failure is
\* logged and thrown again by both catch blocks.
AnalyzeProject(k, projectKey) ==
    /\ analyzers.calls[k].op = "none"
    /\ analyzers' = [analyzers EXCEPT
           !.calls[k] = [NoCall EXCEPT !.op = "analyzeProject", !.pc = "issues",
                                       !.target = projectKey]]
    /\ AnalyzerStep

ScanResponse(k, answered) ==
    LET call == analyzers.calls[k]
    IN  /\ call.op = "analyzeProject"
        /\ call.pc \in {"issues", "status"}
        /\ IF ~answered
           THEN Rethrow(k, "AxiosError")
           ELSE analyzers' = [analyzers EXCEPT
                    !.calls[k].pc = IF call.pc = "issues" THEN "status" ELSE "returned"]
        /\ AnalyzerStep

\* The results of the analyzeCode calls that have returned, in call order.
ReturnedResults ==
    LET of(k) == IF analyzers.calls[k].op = "analyzeCode"
                       /\ analyzers.calls[k].pc = "returned"
                 THEN analyzers.calls[k].value.results ELSE <<>>
    IN  of("k1") \o of("k2")

\* generateReport called on the results at hand.
Report ==
    /\ analyzers' = [analyzers EXCEPT
           !.report = [made |-> TRUE, input |-> ReturnedResults,
                       output |-> GenerateReport(ReturnedResults)]]
    /\ AnalyzerStep

\* GET /:reviewId/issues: the query is a TODO; the route answers with no
\* issue and every tally at zero.
ReviewIssuesBody ==
    [issues |-> <<>>,
     summary |-> [total |-> 0,
                  bySeverity |-> [info |-> 0, minor |-> 0, major |-> 0, critical |-> 0,
                                  blocker |-> 0],
                  byType |-> [bug |-> 0, vulnerability |-> 0, code_smell |-> 0,
                              security_hotspot |-> 0, style |-> 0]]]

Severities == {"info", "minor", "major", "critical", "blocker"}

\* `query` holds the optional filters that were sent.
ReviewIssues(authorization, reviewId, query) ==
    LET req == [endpoint |-> "reviewIssues", authorization |-> authorization,
                reviewId |-> reviewId]
        auth == AuthenticateToken(authorization)
    IN  IF auth # NoError
        THEN ErrorHandler(req, auth)
        ELSE IF \/ ~IsUUID(reviewId)
                \/ "severity" \in DOMAIN query /\ query.severity \notin Severities
        THEN ErrorHandler(req, CustomError("Invalid query parameters", 400))
        ELSE /\ last' = [req |-> req, status |-> 200, error |-> "none", added |-> NoneAdded,
                         job |-> NoJob, jobState |-> "none", body |-> ReviewIssuesBody]
             /\ UNCHANGED <<env, queues, pending, fanout, analyzers>>

-----------------------------------------------------------------------------

Init ==
    /\ env \in [{"GITHUB_WEBHOOK_SECRET", "GITLAB_WEBHOOK_SECRET"} -> Secrets]
    /\ queues = [q \in QueueKinds |-> <<>>]
    /\ pending = <<>>
    /\ last = [req |-> NoRequest, status |-> 0, error |-> "none", added |-> NoneAdded,
               job |-> NoJob, jobState |-> "none", body |-> NoBody]
    /\ ioInstance = FALSE
    /\ sockets = [c \in Conns |-> Closed]
    /\ lastEmit = NoEmit
    /\ lastMessage = NoMessage
    /\ analyzers = NoAnalysis

\* The requests a run draws from. For a well-formed repository id: each
\* body under the digest of each body, the signed body with no signature and
\* with one of the wrong length, and the second event with the signed body;
\* for a malformed id: a good and a bad signature.
GitHubRequests ==
    {<<id, WithPrefix(HmacHex("s3cret", b)), "push", raw>> :
          id \in UUIDs, b \in RawBodies, raw \in RawBodies}
        \cup {<<id, sig, "push", BodySigned>> : id \in UUIDs, sig \in {Undefined, Junk(10)}}
        \cup {<<id, sig, "pull_request", BodySigned>> :
                  id \in UUIDs, sig \in {Undefined, WithPrefix(HmacHex("s3cret", BodySigned))}}
        \cup {<<"not-a-uuid", sig, "push", BodySigned>> :
                  sig \in {Undefined, WithPrefix(HmacHex("s3cret", BodySigned))}}

GitLabRequests ==
    {<<id, HmacHex("s3cret", b), "push", raw>> :
          id \in UUIDs, b \in RawBodies, raw \in RawBodies}
        \cup {<<id, sig, "push", BodySigned>> : id \in UUIDs, sig \in {Undefined, Junk(10)}}
        \cup {<<id, sig, "pull_request", BodySigned>> :
                  id \in UUIDs, sig \in {Undefined, HmacHex("s3cret", BodySigned)}}
        \cup {<<"not-a-uuid", sig, "push", BodySigned>> :
                  sig \in {Undefined, HmacHex("s3cret", BodySigned)}}

\* With a valid token: each provider, an empty event type and a malformed
\* id; and a missing and a rejected token.
TestRequests ==
    {<<"valid", id, p, "ping">> : id \in UUIDs, p \in TestProviders}
        \cup {<<"valid", id, "github", "">> : id \in UUIDs}
        \cup {<<"valid", "not-a-uuid", "github", "ping">>}
        \cup {<<a, id, "github", "ping">> : a \in {"absent", "invalid"}, id \in UUIDs}

Next ==
    \/ \E r \in GitHubRequests : GitHubWebhook(r[1], r[2], r[3], r[4])
    \/ \E r \in GitLabRequests : GitLabWebhook(r[1], r[2], r[3], r[4])
    \/ \E r \in TestRequests : TestWebhook(r[1], r[2], r[3], r[4])
    \/ \E i \in 1..MaxInFlight : Respond(i)

Spec == Init /\ [][Next]_vars

\* The scheduler's view: routes that enqueue on each of the three queues,
\* with requests that pass validation or fail authentication, both webhook
\* secrets configured, the cancel, retry and job status routes, and the
\* jobs' life cycle.
InitSched ==
    /\ Init
    /\ env = [GITHUB_WEBHOOK_SECRET |-> "s3cret", GITLAB_WEBHOOK_SECRET |-> "s3cret"]

Enqueue ==
    \/ \E id \in UUIDs :
          GitHubWebhook(id, WithPrefix(HmacHex("s3cret", BodySigned)), "push", BodySigned)
    \/ \E a \in {"valid", "absent"}, id \in PullRequestIds : CreateReview(a, id, "eslint")
    \/ \E id \in UUIDs : ReviewPdfReport("valid", id)

ManualRetry ==
    \/ \E id \in UUIDs : RetryReview("valid", id)
    \/ \E id \in UUIDs : RetryWebhookEvent("valid", id)

LifeCycle ==
    \/ Tick
    \/ \E q \in QueueKinds, i \in 1..MaxJobs :
        \/ Pickup(q, i)
        \/ Complete(q, i)
        \/ Fail(q, i)
        \/ AutoRetry(q, i)
        \/ Exhaust(q, i)
        \/ LeaseExpire(q, i)

NextSched ==
    \/ Enqueue /\ TotalJobs' <= MaxJobs
    \/ \E i \in 1..MaxInFlight : Respond(i)
    \/ \E id \in UUIDs : CancelReview("valid", id)
    \/ ManualRetry
    \/ \E jobId \in 1..(MaxJobs + 1) : JobStatus("valid", jobId)
    \/ LifeCycle

SpecSched == InitSched /\ [][NextSched]_vars

\* Two queues side by side: a webhook job enqueued with the queue's default
\* policy (test path) or with the route's own (GitHub path), a report job,
\* and their life cycles interleaved.
NextQueues ==
    \/ \E id \in UUIDs : TestWebhook("valid", id, "github", "ping")
    \/ \E id \in UUIDs, ev \in Events :
          GitHubWebhook(id, WithPrefix(HmacHex("s3cret", BodySigned)), ev, BodySigned)
    \/ \E id \in UUIDs : RepositoryPdfReport("valid", id)
    \/ IssuesCsvReport("valid")
    \/ \E i \in 1..MaxInFlight : Respond(i)
    \/ LifeCycle

SpecQueues == InitSched /\ [][NextQueues]_vars

\* The fanout alone: the socket server, three connections (the second an
\* admin), their subscriptions, and the emit helpers called with a payload
\* that numbers the call.
Handshakes ==
    {<<"c1", "valid", "user-1", "user">>, <<"c2", "valid", "user-2", "admin">>,
     <<"c3", "valid", "user-3", "user">>, <<"c3", "absent", "none", "none">>}

PrIds == {"42", "43"}

RepositoryIds == {"r1"}

\* Who asks for which room: the first two connections for pr:42, the third
\* for pr:43, the first for the repository.
PrSubscriptions == {<<"c1", "42">>, <<"c2", "42">>, <<"c3", "43">>}

RepositorySubscriptions == {<<"c1", "r1">>}

Membership ==
    \/ \E h \in Handshakes : Connect(h[1], h[2], h[3], h[4])
    \/ \E p \in RepositorySubscriptions : SubscribeRepository(p[1], p[2])
    \/ \E p \in RepositorySubscriptions : UnsubscribeRepository(p[1], p[2])
    \/ \E p \in PrSubscriptions : SubscribePr(p[1], p[2])
    \/ \E p \in PrSubscriptions : UnsubscribePr(p[1], p[2])
    \/ \E c \in Conns : Disconnect(c)

Publish ==
    \/ EmitToUser("user-1", "review_completed", lastEmit.n + 1)
    \/ \E id \in RepositoryIds : EmitToRepository(id, "analysis_started", lastEmit.n + 1)
    \/ \E id \in PrIds : EmitToPR(id, "issue_found", lastEmit.n + 1)
    \/ EmitToAdmins("queue_alert", lastEmit.n + 1)
    \/ EmitToAll("maintenance", lastEmit.n + 1)

\* The scheduler and the fanout together: an analysis job and its life
\* cycle, and the connection of the user who asked for it, subscribed to
\* the pull request or not.
NextNotify ==
    \/ \E id \in UUIDs : CreateReview("valid", id, "eslint")
    \/ \E i \in 1..MaxInFlight : Respond(i)
    \/ LifeCycle
    \/ SetupWebSocket
    \/ Connect("c1", "valid", "user-1", "user")
    \/ \E id \in UUIDs : SubscribePr("c1", id)

SpecNotify == InitSched /\ [][NextNotify]_vars

NextFanout ==
    \/ SetupWebSocket
    \/ Membership
    \/ Publish

SpecFanout == InitSched /\ [][NextFanout]_vars

\* A pool of two workers on the analysis queue, whose leases may expire
\* while they run.
NextLease ==
    \/ \E id \in UUIDs : CreateReview("valid", id, "eslint")
    \/ \E i \in 1..MaxInFlight : Respond(i)
    \/ LifeCycle
    \/ \E q \in QueueKinds, i \in 1..MaxJobs : LeaseLapse(q, i)
    \/ \E q \in QueueKinds, i \in 1..MaxJobs, w \in Workers : StaleReport(q, i, w)

SpecLease == InitSched /\ [][NextLease]_vars

\* The calls of the lint service a run draws from: two texts for the same
\* file name and one for another, a configuration the engine rejects, and
\* texts to fix.
AnalyzeInputs ==
    {<<Dirty, "a.js", "default">>, <<Clean, "a.js", "default">>,
     <<Dirty, "b.js", "default">>, <<Dirty, "a.js", "malformed">>}

FixInputs ==
    {<<Nested, "a.js", "custom">>, <<Dirty, "b.js", "custom">>, <<Clean, "b.js", "default">>}

IssueQueries ==
    {[filePath |-> "src/a.js"], [filePath |-> "src/a.js", severity |-> "major"],
     [filePath |-> "src/a.js", severity |-> "fatal"]}

\* Two calls of the analyzers at a time, interleaved at their awaits, the
\* report of what they returned, and the issues route.
NextAnalyzers ==
    \/ \E k \in CallIds, i \in AnalyzeInputs : AnalyzeCode(k, i[1], i[2], i[3])
    \/ \E k \in CallIds, i \in FixInputs : FixCode(k, i[1], i[2], i[3])
    \/ \E k \in CallIds : Lint(k)
    \/ \E k \in CallIds : Resume(k)
    \/ \E k \in CallIds : AnalyzeProject(k, "project-1")
    \/ \E k \in CallIds, answered \in BOOLEAN : ScanResponse(k, answered)
    \/ Report
    \/ \E query \in IssueQueries, id \in UUIDs : ReviewIssues("valid", id, query)

SpecAnalyzers == InitSched /\ [][NextAnalyzers]_vars

\* The life of the connections: handshakes the middleware accepts and
\* refuses (no token, an expired token that names an admin), two clients of
\* pr:42 of which the first also follows a repository, disconnects, and
\* publishes to pr:42 and to everyone.
MemberHandshakes ==
    {<<"c1", "valid", "user-1", "user">>, <<"c2", "valid", "user-2", "admin">>,
     <<"c3", "absent", "none", "none">>, <<"c3", "expired", "user-3", "admin">>}

NextMembers ==
    \/ SetupWebSocket
    \/ \E h \in MemberHandshakes : Connect(h[1], h[2], h[3], h[4])
    \/ \E c \in {"c1", "c2"} : SubscribePr(c, "42")
    \/ \E c \in {"c1", "c2"} : UnsubscribePr(c, "42")
    \/ SubscribeRepository("c1", "r1")
    \/ UnsubscribeRepository("c1", "r1")
    \/ \E c \in Conns : Disconnect(c)
    \/ EmitToPR("42", "issue_found", lastEmit.n + 1)
    \/ EmitToAll("maintenance", lastEmit.n + 1)

SpecMembers == InitSched /\ [][NextMembers]_vars

\* What a client may send as the argument of a message: the name of the
\* admin room and the id of another user.
ClientArguments == {"admin", "user-2"}

\* The rooms against their clients: a user whose messages carry any of the
\* arguments above, an admin, and publishes to the admin room and to the
\* admin's own room.
NextRooms ==
    \/ SetupWebSocket
    \/ Connect("c1", "valid", "user-1", "user")
    \/ Connect("c2", "valid", "user-2", "admin")
    \/ \E arg \in ClientArguments : SubscribeRepository("c1", arg)
    \/ \E arg \in ClientArguments : UnsubscribeRepository("c1", arg)
    \/ \E arg \in ClientArguments : SubscribePr("c1", arg)
    \/ \E arg \in ClientArguments : UnsubscribePr("c1", arg)
    \/ \E c \in {"c1", "c2"} : Disconnect(c)
    \/ EmitToAdmins("queue_alert", lastEmit.n + 1)
    \/ EmitToUser("user-2", "review_completed", lastEmit.n + 1)

SpecRooms == InitSched /\ [][NextRooms]_vars

-----------------------------------------------------------------------------
(* Vocabulary of the properties below.  A request is judged by what was    *)
(* sent, independently of the handlers.                                    *)

IsProviderRequest(r) == r.endpoint \in {"github", "gitlab"}

WellFormedId(r) == r.repositoryId \in UUIDs

SecretOf(r) ==
    IF r.endpoint = "github" THEN env.GITHUB_WEBHOOK_SECRET ELSE env.GITLAB_WEBHOOK_SECRET

OtherSecretOf(r) ==
    IF r.endpoint = "github" THEN env.GITLAB_WEBHOOK_SECRET ELSE env.GITHUB_WEBHOOK_SECRET

\* The header value the provider sends for `bytes` under the configured secret.
SignatureOver(r, bytes) ==
    IF r.endpoint = "github" THEN WithPrefix(HmacHex(SecretOf(r), bytes))
    ELSE HmacHex(SecretOf(r), bytes)

\* The signature is the digest of the exact bytes received.
SignedOverRaw(r) == r.signature = SignatureOver(r, r.raw)

\* The signature is the digest the gateway computes: that of the body parsed
\* and serialised again.
PassesVerification(r) == r.signature = SignatureOver(r, JSONStringify(JSONParse(r.raw)))

\* The add was rejected by the store (section 4.2: QueueUnavailable).
StoreRejected == last.error = "QueueUnavailable"

OneWebhookJob == [q \in QueueKinds |-> IF q = "webhook" THEN 1 ELSE 0]

\* Every request whose outcome is known: the one last answered and those
\* whose job is enqueued and whose response is still to be sent.
Outcomes ==
    {[req |-> last.req, added |-> last.added, job |-> last.job]}
        \cup {[req |-> pending[i].req, added |-> pending[i].added, job |-> pending[i].job] :
                 i \in 1..Len(pending)}

-----------------------------------------------------------------------------
\* C1: with a secret configured for the provider, a GitHub or GitLab webhook
\* request that fails the gateway's signature verification (wrong value,
\* wrong length or no signature) adds no job to any queue: every request
\* for which a job was enqueued passed verification.
InvC1 ==
    \A o \in Outcomes :
        (IsProviderRequest(o.req) /\ SecretOf(o.req) # "" /\ ~PassesVerification(o.req))
            => (o.added = NoneAdded /\ o.job = NoJob)

WitC1 ==
    /\ IsProviderRequest(last.req)
    /\ WellFormedId(last.req)
    /\ SecretOf(last.req) # ""
    /\ last.req.signature # Undefined
    /\ last.req.signature.len = SignatureOver(last.req, last.req.raw).len
    /\ ~PassesVerification(last.req)
    /\ last.status = 401
    /\ Len(queues["webhook"]) = 0

\* C2: with a secret configured, every provider webhook request with a
\* well-formed repository id and a bad signature (wrong value, wrong length
\* or absent) is answered 401.
InvC2 ==
    (IsProviderRequest(last.req) /\ WellFormedId(last.req)
        /\ SecretOf(last.req) # "" /\ ~PassesVerification(last.req))
        => last.status = 401

\* C3: every provider webhook request with a well-formed repository id and a
\* valid signature (the digest of the body sent, under the configured
\* secret) enqueues exactly one job, on the webhook queue, carrying the
\* request's repositoryId, event, payload and the endpoint's provider, and
\* is answered 200 (the store accepting the job).
InvC3 ==
    (IsProviderRequest(last.req) /\ WellFormedId(last.req)
        /\ SecretOf(last.req) # "" /\ SignedOverRaw(last.req) /\ ~StoreRejected)
        => /\ last.status = 200
           /\ last.added = OneWebhookJob
           /\ last.job # NoJob
           /\ last.job.queue = "webhook"
           /\ JobAt(last.job).data =
                  [repositoryId |-> last.req.repositoryId, event |-> last.req.event,
                   payload |-> JSONParse(last.req.raw), provider |-> last.req.endpoint]

\* C4: with a secret configured, a provider webhook request with a
\* well-formed repository id is accepted if and only if its signature is the
\* provider-format HMAC-SHA256 of the exact bytes received.
InvC4 ==
    (IsProviderRequest(last.req) /\ WellFormedId(last.req)
        /\ SecretOf(last.req) # "" /\ ~StoreRejected)
        => (last.status = 200 <=> SignedOverRaw(last.req))

\* C5: with no secret configured for a provider, every request to its
\* endpoint with a well-formed repository id is enqueued and answered 200
\* whatever its signature header (the store accepting the job), while a
\* request to the other provider's endpoint, whose secret is configured, is
\* still rejected when it fails verification.
InvC5 ==
    /\ (IsProviderRequest(last.req) /\ WellFormedId(last.req)
            /\ SecretOf(last.req) = "" /\ ~StoreRejected)
          => (last.status = 200 /\ last.added = OneWebhookJob)
    /\ (IsProviderRequest(last.req) /\ WellFormedId(last.req)
            /\ SecretOf(last.req) # "" /\ OtherSecretOf(last.req) = ""
            /\ ~PassesVerification(last.req))
          => (last.status \in {401, 500} /\ last.added = NoneAdded)
    /\ \A i \in 1..Len(pending) :
          (IsProviderRequest(pending[i].req) /\ SecretOf(pending[i].req) # "")
              => PassesVerification(pending[i].req)

WitC5 ==
    /\ env.GITHUB_WEBHOOK_SECRET = ""
    /\ env.GITLAB_WEBHOOK_SECRET # ""
    /\ last.req.endpoint = "github"
    /\ last.req.signature = Undefined
    /\ last.status = 200
    /\ last.added = OneWebhookJob

\* C6: a provider webhook request whose repository id is not a UUID is
\* answered 400 and enqueues no job, whatever its signature: the check comes
\* before signature verification.
InvC6 ==
    \A o \in Outcomes :
        (IsProviderRequest(o.req) /\ ~WellFormedId(o.req))
            => (o.added = NoneAdded /\ o.job = NoJob /\ o.req = last.req /\ last.status = 400)

WitC6 ==
    /\ IsProviderRequest(last.req)
    /\ ~WellFormedId(last.req)
    /\ SecretOf(last.req) # ""
    /\ last.req.signature = Undefined
    /\ last.status = 400

\* C7: an authenticated, valid request on the test path enqueues exactly one
\* webhook job marked isTest = TRUE with the supplied provider and event
\* type (the store accepting the job), and a job carries isTest = TRUE if
\* and only if the test path enqueued it.
InvC7 ==
    /\ (last.req.endpoint = "test" /\ last.req.authorization = "valid"
            /\ last.req.repositoryId \in UUIDs /\ last.req.provider \in {"github", "gitlab"}
            /\ last.req.eventType # "" /\ ~StoreRejected)
          => /\ last.status = 200
             /\ last.added = OneWebhookJob
             /\ JobAt(last.job).data.provider = last.req.provider
             /\ JobAt(last.job).data.event = last.req.eventType
    /\ \A o \in Outcomes :
          o.job # NoJob => (IsTest(JobAt(o.job)) <=> o.req.endpoint = "test")
    /\ \A i \in 1..Len(queues["webhook"]) :
          IsTest(queues["webhook"][i]) <=>
              queues["webhook"][i].name \notin {"process-github-webhook", "process-gitlab-webhook"}

WitC7 ==
    /\ last.req.endpoint = "test"
    /\ last.status = 200
    /\ last.job # NoJob
    /\ IsTest(JobAt(last.job))
    /\ JobAt(last.job).data.provider = "gitlab"
    /\ JobAt(last.job).data.event = "ping"

-----------------------------------------------------------------------------
(* Properties of the scheduler, under SpecSched. *)

AllJobs == {ref \in JobRefs : ref.id <= Len(queues[ref.queue])}

\* C8: the response to a webhook never waits on the job: once the enqueue
\* has completed the handler can respond whatever the state of the job, a
\* 200 is sent only for a request whose job was enqueued, and a request
\* whose enqueue failed is answered 500 with nothing enqueued.
InvC8 ==
    /\ \A i \in 1..Len(pending) : ENABLED Respond(i)
    /\ (last.req.endpoint \in {"github", "gitlab", "test"} /\ last.status = 200)
          => /\ last.added = OneWebhookJob
             /\ last.job \in AllJobs
             /\ last.job.queue = "webhook"
             /\ last.jobState \in JobStates
    /\ StoreRejected => (last.status = 500 /\ last.added = NoneAdded /\ last.job = NoJob)

WitC8 ==
    /\ last.req.endpoint = "github"
    /\ last.status = 200
    /\ last.jobState = "completed"

\* C9: for every job on every queue, attemptCount never exceeds maxAttempts.
InvC9 ==
    \A ref \in AllJobs : AttemptCount(JobAt(ref)) <= MaxAttempts(JobAt(ref))

WitC9 ==
    /\ last.req.endpoint = "retryReview"
    /\ last.status = 200
    /\ \E ref \in AllJobs :
          /\ ref.queue = "analysis"
          /\ JobAt(ref).state = "dead"
          /\ AttemptCount(JobAt(ref)) = MaxAttempts(JobAt(ref))

\* C10: a job is dead only after exactly maxAttempts failed attempts (3 for
\* an analysis job, 2 for a report job): a failed job with attempts left
\* cannot become dead, one with none left can only become dead, and a dead
\* job is neither retried automatically nor picked up.
InvC10 ==
    \A ref \in AllJobs :
        LET job == JobAt(ref)
        IN  /\ job.state = "dead" =>
                  /\ AttemptCount(job) = MaxAttempts(job)
                  /\ ref.queue = "analysis" => AttemptCount(job) = 3
                  /\ ref.queue = "report" => AttemptCount(job) = 2
                  /\ ~ENABLED AutoRetry(ref.queue, ref.id)
                  /\ ~ENABLED Pickup(ref.queue, ref.id)
            /\ (job.state = "failed" /\ AttemptCount(job) < MaxAttempts(job)) =>
                  ~ENABLED Exhaust(ref.queue, ref.id)
            /\ (job.state = "failed" /\ AttemptCount(job) >= MaxAttempts(job)) =>
                  /\ ENABLED Exhaust(ref.queue, ref.id)
                  /\ ~ENABLED AutoRetry(ref.queue, ref.id)

WitC10 ==
    \E ref \in AllJobs :
        /\ ref.queue = "report"
        /\ JobAt(ref).state = "dead"
        /\ AttemptCount(JobAt(ref)) = 2

\* C11: every change of a job's state is queued -> active, active ->
\* completed, active -> failed, failed -> queued while attemptCount <
\* maxAttempts, failed -> dead once the attempts are exhausted, active ->
\* queued, or a manual retry re-opening a failed or dead job; no job leaves
\* completed, none leaves dead but by manual retry, and no job disappears.
InvC11 ==
    [][\A ref \in AllJobs :
          LET old == queues[ref.queue][ref.id]
              new == queues'[ref.queue][ref.id]
          IN  /\ ref.id <= Len(queues'[ref.queue])
              /\ old.state # new.state =>
                    \/ old.state = "queued" /\ new.state = "active"
                    \/ old.state = "active" /\ new.state \in {"completed", "failed", "queued"}
                    \/ /\ old.state = "failed" /\ new.state = "queued"
                       /\ AttemptCount(old) < MaxAttempts(old)
                    \/ /\ old.state = "failed" /\ new.state = "dead"
                       /\ AttemptCount(old) >= MaxAttempts(old)
                    \/ /\ ManualRetry
                       /\ old.state \in {"failed", "dead"} /\ new.state = "queued"]_vars

WitC11 ==
    \E ref \in AllJobs :
        /\ JobAt(ref).state = "completed"
        /\ AttemptCount(JobAt(ref)) = 2
        /\ Len(JobAt(ref).delays) = 2

IsPrefix(s, t) == Len(s) <= Len(t) /\ \A n \in 1..Len(s) : s[n] = t[n]

\* C12: for every job, the delay after its n-th failed attempt is baseDelay
\* * 2^(n-1) under an exponential policy and baseDelay under a fixed one, so
\* its delays never decrease under exponential and are constant under
\* fixed: 2000, 4000 for an analysis job, 5000 each for a report job.
InvC12 ==
    \A ref \in AllJobs :
        LET job == JobAt(ref)
            base == job.opts.backoff.delay
            d == job.delays
        IN  /\ job.opts.backoff.type = "exponential" =>
                  /\ \A n \in 1..Len(d) : d[n] = base * 2^(n - 1)
                  /\ \A n \in 1..(Len(d) - 1) : d[n] <= d[n + 1]
            /\ job.opts.backoff.type = "fixed" =>
                  \A n \in 1..Len(d) : d[n] = base
            /\ job.opts.backoff.type \in {"exponential", "fixed"}
            /\ ref.queue = "analysis" => IsPrefix(d, <<2000, 4000>>)
            /\ ref.queue = "report" => IsPrefix(d, <<5000, 5000>>)
            /\ job.state \in {"failed", "dead"} => Len(d) = AttemptCount(job) - 1
            /\ job.state \in {"queued", "active", "completed"} => Len(d) = AttemptCount(job)

WitC12 ==
    /\ \E ref \in AllJobs :
          ref.queue = "analysis" /\ JobAt(ref).state = "dead" /\ JobAt(ref).delays = <<2000, 4000>>

\* The delay the backoff policy of a job prescribes after its latest failure.
RequiredDelay(job) ==
    IF job.opts.backoff.type = "exponential"
    THEN job.opts.backoff.delay * 2^(AttemptCount(job) - 1)
    ELSE job.opts.backoff.delay

\* C13: a job retried automatically after a failure cannot be picked up
\* until the whole delay of its backoff policy has passed, and is not
\* active before; a job that never failed is eligible as soon as it is
\* enqueued, with no delay before its first attempt.
InvC13 ==
    \A ref \in AllJobs :
        LET job == JobAt(ref)
        IN  /\ (job.state = "queued" /\ AttemptCount(job) = 0) =>
                  ENABLED Pickup(ref.queue, ref.id)
            /\ (job.state = "queued" /\ AttemptCount(job) >= 1
                    /\ job.waited < RequiredDelay(job)) =>
                  ~ENABLED Pickup(ref.queue, ref.id)
            /\ (job.state = "active" /\ AttemptCount(job) >= 1) =>
                  job.waited >= RequiredDelay(job)

WitC13 ==
    \E ref \in AllJobs :
        /\ ref.queue = "webhook"
        /\ JobAt(ref).state = "active"
        /\ AttemptCount(JobAt(ref)) = 2
        /\ JobAt(ref).waited = 4000

\* What a job's queue-mates and the other queues must not disturb.
Policy(job) == [attempts |-> MaxAttempts(job), kind |-> job.opts.backoff.type,
                baseDelay |-> job.opts.backoff.delay]

Core(q) == [i \in DOMAIN queues[q] |->
               [state |-> queues[q][i].state, attemptCount |-> AttemptCount(queues[q][i]),
                policy |-> Policy(queues[q][i])]]

\* C14: each queue has its own default policy (analysis: 3 attempts,
\* exponential, 2000 ms; webhook: 5, exponential, 1000 ms; report: 2, fixed,
\* 5000 ms); a job enqueued with no options of its own (test path) gets its
\* queue's default and one enqueued with options gets exactly those (GitHub
\* path: 3, exponential, 2000 ms; report: 2, fixed, 5000 ms); and no step
\* changes the state, attemptCount or policy of jobs on two queues.
InvC14 ==
    /\ [](/\ Policy([opts |-> DefaultJobOptions("analysis")]) =
                 [attempts |-> 3, kind |-> "exponential", baseDelay |-> 2000]
           /\ Policy([opts |-> DefaultJobOptions("webhook")]) =
                 [attempts |-> 5, kind |-> "exponential", baseDelay |-> 1000]
           /\ Policy([opts |-> DefaultJobOptions("report")]) =
                 [attempts |-> 2, kind |-> "fixed", baseDelay |-> 5000]
           /\ \A o \in Outcomes :
                 /\ (o.req.endpoint = "test" /\ o.job # NoJob) =>
                       Policy(JobAt(o.job)) =
                           [attempts |-> 5, kind |-> "exponential", baseDelay |-> 1000]
                 /\ (o.req.endpoint = "github" /\ o.job # NoJob) =>
                       Policy(JobAt(o.job)) =
                           [attempts |-> 3, kind |-> "exponential", baseDelay |-> 2000]
                 /\ (o.req.endpoint \in {"issuesCsv", "repositoryPdf"} /\ o.job # NoJob) =>
                       Policy(JobAt(o.job)) =
                           [attempts |-> 2, kind |-> "fixed", baseDelay |-> 5000])
    /\ [][\A q1, q2 \in QueueKinds :
             (q1 # q2 /\ Core(q1)' # Core(q1)) => Core(q2)' = Core(q2)]_vars

WitC14 ==
    /\ Len(queues["webhook"]) = 1
    /\ Len(queues["report"]) = 1
    /\ queues["webhook"][1].name = "test-github-webhook"
    /\ queues["webhook"][1].state = "failed"
    /\ AttemptCount(queues["webhook"][1]) = 5
    /\ queues["report"][1].state = "queued"
    /\ AttemptCount(queues["report"][1]) = 0

\* C15: a cancel takes effect only on a queued job: after the cancel of a
\* queued analysis job the job is no longer queued for pickup, and the
\* cancel of an active, completed, failed or dead job leaves its state as it
\* was and is not answered as a successful cancellation.
InvC15 ==
    [][(\E id \in UUIDs : CancelReview("valid", id)) =>
          \A i \in 1..Len(queues["analysis"]) :
              LET old == queues["analysis"][i]
                  new == queues'["analysis"][i]
              IN  /\ old.state = "queued" => new.state # "queued"
                  /\ old.state # "queued" => (new.state = old.state /\ last'.status # 200)]_vars

\* What a manual retry must do to the jobs of queue q.
RetryContract(q) ==
    /\ Len(queues'[q]) = Len(queues[q])
    /\ \A i \in 1..Len(queues[q]) :
          LET old == queues[q][i]
              new == queues'[q][i]
          IN  /\ AttemptCount(new) = AttemptCount(old)
              /\ (old.state = "failed" /\ AttemptCount(old) < MaxAttempts(old)) =>
                    new.state = "queued"
              /\ AttemptCount(old) >= MaxAttempts(old) =>
                    (new = old /\ last'.status # 200)

\* C16: a manual retry of a failed job with attempts left puts that same
\* job back to queued with its attemptCount as it was; the retry of a job
\* whose attempts are exhausted is rejected and leaves it unchanged; a retry
\* creates no job and resets no attemptCount.
InvC16 ==
    [][/\ (\E id \in UUIDs : RetryReview("valid", id)) => RetryContract("analysis")
       /\ (\E id \in UUIDs : RetryWebhookEvent("valid", id)) => RetryContract("webhook")]_vars

\* The rooms that match the identifiers a job carries.
MatchingRooms(job) ==
    (IF "userId" \in DOMAIN job.data THEN {Room("user", job.data.userId)} ELSE {})
        \cup (IF "repositoryId" \in DOMAIN job.data
              THEN {Room("repository", job.data.repositoryId)} ELSE {})
        \cup (IF "pullRequestId" \in DOMAIN job.data
              THEN {Room("pr", job.data.pullRequestId)} ELSE {})

\* C17: whenever a job becomes completed, failed or dead, every connection
\* that is in a room matching the job's user, repository or pull request
\* at that moment receives a notification in that step.
InvC17 ==
    [][\A ref \in AllJobs :
          LET old == queues[ref.queue][ref.id]
              new == queues'[ref.queue][ref.id]
          IN  (old.state # new.state /\ new.state \in {"completed", "failed", "dead"}) =>
                  \A c \in Conns :
                      (sockets[c].connected /\ sockets[c].rooms \cap MatchingRooms(old) # {}) =>
                          Len(sockets'[c].received) > Len(sockets[c].received)]_vars

\* C18: the job status query answers with the job's status as it is, with
\* a result only when that status is completed (none for a job queued,
\* active, failed or dead, a job being retried included), and for a failed
\* job with the message of its latest failure as error.
InvC18 ==
    [][\A jobId \in 1..Len(queues["report"]) :
          JobStatus("valid", jobId) =>
              LET job == queues["report"][jobId]
              IN  /\ last'.status = 200
                  /\ last'.body.status = job.state
                  /\ last'.body.result # "null" <=> job.state = "completed"
                  /\ job.state = "failed" =>
                        last'.body.error = [message |-> "attempt failed",
                                            attempt |-> AttemptCount(job)]]_vars

WitC18 ==
    /\ last.req.endpoint = "jobStatus"
    /\ last.status = 200
    /\ last.body.status = "queued"
    /\ last.body.result = "null"
    /\ last.body.error = [message |-> "attempt failed", attempt |-> 1]

-----------------------------------------------------------------------------
(* Properties of the fanout, under SpecFanout. *)

\* A step in which an emit helper is called, and the event it publishes.
EmitStep == lastEmit'.n = lastEmit.n + 1

Published == [event |-> lastEmit'.event, data |-> lastEmit'.data]

\* The connections in the room of the call when it is made.
MembersAtCall ==
    {c \in Conns : sockets[c].connected /\ lastEmit'.room \in sockets[c].rooms}

\* C19: a publish to a room is received, once, by every connection that is
\* in the room when the call is made, and by no other connection.
InvC19 ==
    [][(EmitStep /\ lastEmit'.room # Broadcast) =>
          \A c \in Conns :
              sockets'[c].received =
                  IF c \in MembersAtCall
                  THEN Append(sockets[c].received, Published)
                  ELSE sockets[c].received]_vars

WitC19 ==
    /\ lastEmit.room = Room("pr", "42")
    /\ Room("pr", "42") \in sockets["c1"].rooms \cap sockets["c2"].rooms
    /\ sockets["c1"].received = <<[event |-> "issue_found", data |-> 1]>>
    /\ sockets["c2"].received = <<[event |-> "issue_found", data |-> 1]>>
    /\ sockets["c3"].connected
    /\ sockets["c3"].rooms = {Room("user", "user-3"), Room("pr", "43")}
    /\ sockets["c3"].received = <<>>

\* C20: a publish to a room nobody is in, or made before the socket server
\* is set up, throws nothing and changes nothing, and no event is kept for
\* later: a connection receives an event only in the step that publishes it,
\* never on joining a room.
InvC20 ==
    [][/\ (EmitStep /\ (MembersAtCall = {} \/ ~ioInstance) /\ lastEmit'.room # Broadcast) =>
             /\ lastEmit'.thrown = "none"
             /\ UNCHANGED <<env, queues, pending, last, ioInstance, sockets>>
       /\ (EmitStep /\ ~ioInstance) =>
             /\ lastEmit'.thrown = "none"
             /\ UNCHANGED <<env, queues, pending, last, ioInstance, sockets>>
       /\ ~EmitStep =>
             \A c \in Conns : sockets'[c].received \in {sockets[c].received, <<>>}]_vars

WitC20 ==
    /\ lastEmit.room = Room("pr", "42")
    /\ lastEmit.n = 1
    /\ sockets["c1"].connected
    /\ Room("pr", "42") \in sockets["c1"].rooms
    /\ sockets["c1"].received = <<>>
    /\ sockets["c2"].received = <<>>

(***************************************************************************)
(* Properties of the connections and their rooms, under SpecMembers.       *)
(***************************************************************************)

\* C21: every connection that completed the handshake is in the room of
\* its own user, from its first state on, and is in the admin room exactly
\* when its verified role is admin.
InvC21 ==
    \A c \in Conns :
        sockets[c].connected =>
            /\ Room("user", sockets[c].userId) \in sockets[c].rooms
            /\ AdminRoom \in sockets[c].rooms <=> sockets[c].userRole = "admin"

WitC21 ==
    /\ sockets["c1"].connected
    /\ sockets["c2"].connected
    /\ sockets["c1"].rooms = {Room("user", "user-1"), Room("pr", "42")}
    /\ sockets["c2"].rooms = {Room("user", "user-2"), AdminRoom}

\* The handshakes the middleware refuses.
Refused == {h \in MemberHandshakes : h[2] # "valid"}

\* C22: a handshake without a token, or with one that does not verify, is
\* refused before the 'connection' handler runs: it opens no connection, and
\* a connection that is not open is in no room, has none of its messages
\* processed and receives no event; a connection opens only by a handshake
\* with a valid token.
InvC22 ==
    [][/\ \A h \in Refused :
             Connect(h[1], h[2], h[3], h[4]) =>
                 (~sockets'[h[1]].connected /\ sockets'[h[1]].error # "none")
       /\ \A c \in Conns :
             /\ ~sockets[c].connected =>
                   /\ sockets[c].rooms = {}
                   /\ sockets[c].received = <<>>
                   /\ ~(lastMessage' # lastMessage /\ lastMessage'.conn = c)
             /\ (~sockets[c].connected /\ ~sockets'[c].connected) =>
                   (sockets'[c].rooms = {} /\ sockets'[c].received = <<>>)
             /\ (~sockets[c].connected /\ sockets'[c].connected) =>
                   \E h \in MemberHandshakes \ Refused :
                       h[1] = c /\ sockets'[c] = Connection(h[3], h[4])]_vars

WitC22 ==
    /\ ~sockets["c3"].connected
    /\ sockets["c3"].error = "Authentication error: Invalid token"
    /\ lastEmit.helper = "emitToAll"
    /\ sockets["c1"].received = <<[event |-> "maintenance", data |-> 1]>>
    /\ sockets["c3"].received = <<>>

\* C23: subscribing to a repository or pull request room the connection is
\* already in, and unsubscribing from one it is not in, leave every socket
\* as it was, its error included; a subscribe leaves the connection in the
\* room and an unsubscribe out of it; and a publish adds at most one event
\* to what a connection has received.
InvC23 ==
    [][/\ \A c \in Conns, id \in PrIds :
             /\ SubscribePr(c, id) =>
                   /\ Room("pr", id) \in sockets'[c].rooms
                   /\ Room("pr", id) \in sockets[c].rooms => sockets' = sockets
             /\ UnsubscribePr(c, id) =>
                   /\ Room("pr", id) \notin sockets'[c].rooms
                   /\ Room("pr", id) \notin sockets[c].rooms => sockets' = sockets
       /\ \A c \in Conns, id \in RepositoryIds :
             /\ SubscribeRepository(c, id) =>
                   /\ Room("repository", id) \in sockets'[c].rooms
                   /\ Room("repository", id) \in sockets[c].rooms => sockets' = sockets
             /\ UnsubscribeRepository(c, id) =>
                   /\ Room("repository", id) \notin sockets'[c].rooms
                   /\ Room("repository", id) \notin sockets[c].rooms => sockets' = sockets
       /\ EmitStep =>
             \A c \in Conns : Len(sockets'[c].received) <= Len(sockets[c].received) + 1]_vars

WitC23 ==
    /\ lastMessage = [conn |-> "c1", event |-> "subscribe:pr", arg |-> "42",
                      changed |-> FALSE]
    /\ Room("pr", "42") \in sockets["c1"].rooms
    /\ lastEmit.room = Room("pr", "42")
    /\ sockets["c1"].received = <<[event |-> "issue_found", data |-> 1]>>

\* The rooms that exist: those some socket is recorded in.
ExistingRooms == UNION {sockets[c].rooms : c \in Conns}

\* C24: a disconnect discards the connection's membership: a connection
\* that is not open is in no room and receives nothing from a publish, a
\* room exists only while a connected socket is in it, and a connection
\* that opens starts with its auto-joined rooms only.
InvC24 ==
    /\ [](\A r \in ExistingRooms : InRoom(r) # {})
    /\ [][/\ \A c \in Conns :
                 /\ Disconnect(c) => (~sockets'[c].connected /\ sockets'[c].rooms = {})
                 /\ ~sockets'[c].connected =>
                       (sockets'[c].rooms = {} /\ sockets'[c].received = <<>>)
                 /\ (~sockets[c].connected /\ sockets'[c].connected) =>
                       sockets'[c].rooms \subseteq
                           {Room("user", sockets'[c].userId), AdminRoom}
          /\ EmitStep =>
                \A c \in Conns : ~sockets[c].connected => sockets'[c] = sockets[c]]_vars

WitC24 ==
    /\ lastMessage = [conn |-> "c1", event |-> "subscribe:pr", arg |-> "42",
                      changed |-> TRUE]
    /\ sockets["c1"].connected
    /\ sockets["c1"].rooms = {Room("user", "user-1")}
    /\ sockets["c1"].received = <<>>
    /\ lastEmit.room = Room("pr", "42")
    /\ sockets["c2"].received = <<[event |-> "issue_found", data |-> 1]>>

-----------------------------------------------------------------------------
(* Confinement of room membership, under SpecRooms. *)

\* The rooms a client message can name.
IsClientRoom(r) == Len(r) = 2 /\ r[1] \in {"repository", "pr"}

\* A connection with no title to what is published to the room: the room is
\* not its own user's, not the admin room of an admin, not a client room.
Outsider(c, room) ==
    /\ sockets[c].connected
    /\ room # Room("user", sockets[c].userId)
    /\ ~(room = AdminRoom /\ sockets[c].userRole = "admin")
    /\ ~IsClientRoom(room)

\* C29: whatever the client messages and their arguments, a connection is
\* only in the room of its own user, in the admin room (if its role is
\* admin) and in rooms named repository:<x> or pr:<x>; it stays in its own
\* user's room, and an admin in the admin room; and a connection that is not
\* an admin receives nothing of what is published to the admin room or to
\* another user's room.
InvC29 ==
    /\ [](\A c \in Conns :
             sockets[c].connected =>
                 /\ \A r \in sockets[c].rooms :
                       \/ r = Room("user", sockets[c].userId)
                       \/ r = AdminRoom /\ sockets[c].userRole = "admin"
                       \/ IsClientRoom(r)
                 /\ Room("user", sockets[c].userId) \in sockets[c].rooms
                 /\ sockets[c].userRole = "admin" => AdminRoom \in sockets[c].rooms)
    /\ [][EmitStep =>
             \A c \in Conns :
                 Outsider(c, lastEmit'.room) => sockets'[c].received = sockets[c].received]_vars

WitC29 ==
    /\ sockets["c1"].connected
    /\ sockets["c1"].rooms =
          {Room("user", "user-1"), Room("repository", "admin"), Room("pr", "user-2")}
    /\ lastMessage.conn = "c1"
    /\ lastEmit.helper = "emitToAdmins"
    /\ sockets["c1"].received = <<>>
    /\ sockets["c2"].received = <<[event |-> "queue_alert", data |-> 1]>>

-----------------------------------------------------------------------------
(* Properties of the analyzers, under SpecAnalyzers. *)

\* The issues a report returns, counted over its files.
IssueCount(out) ==
    SumOf([i \in DOMAIN out.files |-> Len(out.files[i].messages)], DOMAIN out.files)

\* The findings handed to the aggregation.
FindingCount(results) ==
    SumOf([i \in DOMAIN results |-> Len(results[i].messages)], DOMAIN results)

\* The tallies a summary carries: by severity, the errors and the warnings
\* of generateReport or the bySeverity of the issues route; by type, the
\* byType of the route, and nothing where the summary has no such count.
BySeverity(summary) ==
    IF "bySeverity" \in DOMAIN summary THEN summary.bySeverity
    ELSE [error |-> summary.totalErrors, warning |-> summary.totalWarnings]

ByType(summary) ==
    IF "byType" \in DOMAIN summary THEN summary.byType ELSE <<>>

Total(tally) == SumOf(tally, DOMAIN tally)

\* The part of C25 that is about the counts by severity and the issue list.
SeverityTalliesAgree ==
    analyzers.report.made =>
        LET out == analyzers.report.output
        IN  /\ Total(BySeverity(out.summary)) = IssueCount(out)
            /\ IssueCount(out) = FindingCount(analyzers.report.input)

\* C25: the sum of the counts by severity, the sum of the counts by type
\* and the number of issues returned are equal, for the report of the lint
\* results and for the answer of the issues route, and every finding handed
\* to the report is among its issues.
InvC25 ==
    /\ SeverityTalliesAgree
    /\ analyzers.report.made =>
          Total(ByType(analyzers.report.output.summary)) =
              IssueCount(analyzers.report.output)
    /\ (last.req.endpoint = "reviewIssues" /\ last.status = 200) =>
          /\ Total(BySeverity(last.body.summary)) = Len(last.body.issues)
          /\ Total(ByType(last.body.summary)) = Len(last.body.issues)

\* A call whose file no other call has written, read or removed.
Undisturbed(k) ==
    \A j \in CallIds \ {k} : analyzers.calls[j].target # analyzers.calls[k].target

\* What fixCode returns for a text when its call is undisturbed.
FixAlone(text, filename) == FixResult(LintFiles(filename, text, TRUE), text)

\* C26: for the text an undisturbed fixCode returned, a second fixCode
\* returns the same text with fixed = false; and the first reports fixed =
\* true exactly when the text it returns differs from the text it was given.
InvC26 ==
    \A k \in CallIds :
        LET call == analyzers.calls[k]
            first == call.value
            second == FixAlone(first.output, call.target)
        IN  (call.op = "fixCode" /\ call.pc = "returned" /\ Undisturbed(k)) =>
                /\ second.output = first.output
                /\ ~second.fixed
                /\ first.fixed <=> first.output # call.source

\* C27: no call of an analyzer ends with an error thrown to its caller.
InvC27 ==
    \A k \in CallIds : analyzers.calls[k].pc # "thrown"

\* C30: of two lint calls that overlap, each lints the text it was given,
\* neither fails on a file that is missing, and once both have returned no
\* file of either is left in the temp directory.
InvC30 ==
    \A k \in CallIds :
        LET call == analyzers.calls[k]
        IN  call.op \in {"analyzeCode", "fixCode"} =>
                /\ call.pc \in {"linted", "returned"} => call.linted = call.source
                /\ call.error \notin {"ENOENT", "NoFilesFound"}
                /\ (\A j \in CallIds : analyzers.calls[j].pc = "returned") =>
                       analyzers.files[call.target] = Absent

-----------------------------------------------------------------------------
(* The lease discipline, under SpecLease. *)

\* What a report of a worker may commit to.
Committed(job) ==
    [state |-> job.state, result |-> job.returnvalue, attemptCount |-> AttemptCount(job),
     error |-> job.failedReason]

\* C28: a job is active exactly while one worker holds its lease, and that
\* worker is not one whose lease expired; when a lease expires the job is
\* queued again, without a lease, and a free worker can pick it up; and
\* the report of a worker whose lease expired changes neither the state,
\* the result nor the attemptCount of the job.
InvC28 ==
    /\ [](\A ref \in AllJobs :
             LET job == JobAt(ref)
             IN  /\ job.state = "active" <=> job.lease \in Workers
                 /\ job.state # "active" => job.lease = "none"
                 /\ job.lease \notin job.stale
                 /\ (job.state = "queued" /\ job.eligibleIn = 0 /\ job.stale # Workers) =>
                       ENABLED Pickup(ref.queue, ref.id))
    /\ [][\A ref \in AllJobs :
             LET old == queues[ref.queue][ref.id]
                 new == queues'[ref.queue][ref.id]
             IN  /\ LeaseLapse(ref.queue, ref.id) =>
                       /\ new.state = "queued"
                       /\ new.lease = "none"
                       /\ AttemptCount(new) = AttemptCount(old)
                       /\ (new.stale # Workers /\ new.eligibleIn = 0) =>
                             FreeWorker(new) # old.lease
                 /\ \A w \in Workers :
                       StaleReport(ref.queue, ref.id, w) => Committed(new) = Committed(old)
                 /\ (old.lease \in Workers /\ new.lease \in Workers) =>
                       new.lease = old.lease]_vars

WitC28 ==
    \E ref \in AllJobs :
        /\ JobAt(ref).state = "active"
        /\ JobAt(ref).lease = "w2"
        /\ JobAt(ref).stale = {}
        /\ AttemptCount(JobAt(ref)) = 0
        /\ JobAt(ref).returnvalue = "null"

====
